---------------------------- MODULE Spec2Model ----------------------------
(***************************************************************************)
(* Model of the todo REST service: the Express controller handlers         *)
(* (controllers/todoController), the TodoService they call                 *)
(* (services/todoService.ts) and the Mongoose schema of the Todo           *)
(* collection (models/Todo.ts).                                            *)
(*                                                                         *)
(* A handler that awaits one storage round trip is one action.  A handler  *)
(* that awaits several (toggleTodo: findById then save; getTodosCount and  *)
(* getTodosPaginated: two queries under Promise.all) is one action per     *)
(* round trip, so other requests interleave between them.                  *)
(***************************************************************************)
EXTENDS Integers, Sequences, FiniteSets, TLC

(***************************************************************************)
(* Bounds of the model.                                                    *)
(***************************************************************************)
MaxTodos == 2   \* documents ever inserted (ObjectIds handed out)
MaxTime  == 1   \* last value of the millisecond clock

(***************************************************************************)
(* Program constants.                                                      *)
(***************************************************************************)
TitleMaxLength       == 200
DescriptionMaxLength == 1000
DefaultPage          == 1
DefaultLimit         == 10
MaxLimit             == 100

(***************************************************************************)
(* Optional values: undefined is the empty tuple, a defined value v is     *)
(* the one-element tuple <<v>>.                                            *)
(***************************************************************************)
Undefined == <<>>
Some(v)   == <<v>>
IsDefined(o) == o /= Undefined
Val(o)    == o[1]

(***************************************************************************)
(* Strings, run-length encoded: a sequence of runs [ch, n] standing for    *)
(* the character ch repeated n times.  " " is the whitespace character.    *)
(***************************************************************************)
Run(c, k) == <<[ch |-> c, n |-> k]>>
Empty     == <<>>

RECURSIVE Length(_)
Length(s) == IF s = <<>> THEN 0 ELSE Head(s).n + Length(Tail(s))

IsSpace(c) == c = " "

RECURSIVE TrimStart(_)
TrimStart(s) ==
    IF s = <<>> THEN s
    ELSE IF IsSpace(Head(s).ch) THEN TrimStart(Tail(s)) ELSE s

RECURSIVE TrimEnd(_)
TrimEnd(s) ==
    IF s = <<>> THEN s
    ELSE IF IsSpace(s[Len(s)].ch) THEN TrimEnd(SubSeq(s, 1, Len(s) - 1)) ELSE s

\* A plausible slip: only the leading whitespace is removed.
TrimLeadingOnly(s) == TrimStart(s)

\* String.prototype.trim
Trim(s) == TrimEnd(TrimStart(s))

\* x?.trim()
OptTrim(o) == IF IsDefined(o) THEN Some(Trim(Val(o))) ELSE Undefined

StartsOrEndsWithSpace(s) ==
    s /= <<>> /\ (IsSpace(Head(s).ch) \/ IsSpace(s[Len(s)].ch))

(***************************************************************************)
(* Identifiers as they arrive in the URL.  hex24 says whether the text is  *)
(* a 24-digit hexadecimal string; n is the ObjectId it then denotes.       *)
(***************************************************************************)
Oid(k) == [hex24 |-> TRUE, n |-> k]
Junk   == [hex24 |-> FALSE, n |-> 0]

\* mongoose.Types.ObjectId.isValid
ObjectIdIsValid(id) == id.hex24

(***************************************************************************)
(* State.                                                                  *)
(***************************************************************************)
VARIABLES
    todos,    \* the Todo collection: a set of documents
    nextId,   \* the next ObjectId the driver generates
    now,      \* the clock, in milliseconds
    tog,      \* per request slot: a toggleTodo call between findById and save
    stats,    \* a getTodosCount call and its two count queries
    pg,       \* a getTodosPaginated call and its two queries
    pager,    \* a client reading List page by page
    last      \* the response of the handler that finished last

vars == <<todos, nextId, now, tog, stats, pg, pager, last>>

Slots == {"A", "B"}   \* two requests may be inside toggleTodo at once

(***************************************************************************)
(* The Todo schema (models/Todo.ts).                                       *)
(***************************************************************************)
\* The documents of the collection with this _id (at most one).
ById(k) == {d \in todos : d._id = k}

\* Setters of the schema: title and description are declared trim: true.
CastFields(f) ==
    [title       |-> OptTrim(f.title),
     description |-> OptTrim(f.description),
     completed   |-> f.completed]

\* Validators of the schema.  On save every path is validated (isNew); an
\* update with runValidators validates the paths the update sets.  The
\* required validator of a String path rejects undefined and "".
SchemaErrors(f, isNew) ==
    (IF (isNew /\ ~IsDefined(f.title))
        \/ (IsDefined(f.title) /\ Val(f.title) = Empty)
     THEN {"Title is required"} ELSE {})
    \cup
    (IF IsDefined(f.title) /\ Length(Val(f.title)) > TitleMaxLength
     THEN {"Title cannot exceed 200 characters"} ELSE {})
    \cup
    (IF IsDefined(f.description)
        /\ Length(Val(f.description)) > DescriptionMaxLength
     THEN {"Description cannot exceed 1000 characters"} ELSE {})

\* The filter of a status query parameter: Undefined is the empty filter {}.
StatusFilterAllPending(status) ==
    IF status = Some("completed") THEN Some(TRUE) ELSE Undefined

StatusFilter(status) ==
    IF status = Some("completed") THEN Some(TRUE)
    ELSE IF status = Some("pending") THEN Some(FALSE)
    ELSE Undefined

\* Todo.find(filter) as a set, Todo.countDocuments(filter)
Matching(filter) ==
    {d \in todos : IsDefined(filter) => d.completed = Val(filter)}

CountDocuments(filter) == Cardinality(Matching(filter))

\* .sort({createdAt: -1}): every order of the matching documents that is
\* descending in createdAt, built from a newest document onwards.  The store promises no order among documents
\* whose sort key is equal, so each query may return any of these.
RECURSIVE Orderings(_)
Orderings(S) ==
    IF S = {} THEN {<<>>}
    ELSE UNION {{<<d>> \o s : s \in Orderings(S \ {d})} :
                d \in {d \in S : \A e \in S : d.createdAt >= e.createdAt}}

(***************************************************************************)
(* Bookkeeping of the observers: a write ends the quiet period of a        *)
(* statistics call or a paginated call in progress, discards a statistics  *)
(* answer already given, makes a page-by-page read start over, and marks   *)
(* the toggleTodo calls that hold a copy of the written document.          *)
(***************************************************************************)

PgAfterWrite ==
    IF pg.pc = "idle" THEN pg ELSE [pg EXCEPT !.quiet = FALSE]


TogAfterWrite(k, touchesCompleted) ==
    [p \in Slots |->
        IF tog[p].pc /= "idle" /\ tog[p].id = k /\ touchesCompleted
        THEN [tog[p] EXCEPT !.clean = FALSE]
        ELSE tog[p]]

NoFields == [title |-> Undefined, description |-> Undefined, completed |-> Undefined]

Response(op, status, data) ==
    [op |-> op, status |-> status, data |-> data]

IdleTog == [pc |-> "idle", id |-> 0, doc |-> Undefined, read |-> FALSE,
            ret |-> Undefined, raced |-> FALSE, clean |-> TRUE]

IdleStats == [pc |-> "idle", total |-> Undefined, completed |-> Undefined,
              result |-> Undefined, quiet |-> TRUE]

IdlePg == [pc |-> "idle", page |-> 0, limit |-> 0, status |-> Undefined,
           todos |-> Undefined, total |-> Undefined, quiet |-> TRUE]

IdlePager == [pc |-> "idle", status |-> Undefined, limit |-> 0, next |-> 0,
              totalPages |-> 0, items |-> <<>>]

PagerAfterWrite == IdlePager

StatsAfterWrite ==
    IF stats.pc = "running" THEN [stats EXCEPT !.quiet = FALSE] ELSE IdleStats

Init ==
    /\ todos = {}
    /\ nextId = 1
    /\ now = 0
    /\ tog = [p \in Slots |-> IdleTog]
    /\ stats = IdleStats
    /\ pg = IdlePg
    /\ pager = IdlePager
    /\ last = Response("none", 0, Undefined)

\* The clock advances between any two steps, or does not.
Tick ==
    /\ now < MaxTime
    /\ now' = now + 1
    /\ UNCHANGED <<todos, nextId, tog, stats, pg, pager, last>>

(***************************************************************************)
(* POST /api/todos: TodoController.createTodo, TodoService.createTodo.     *)
(***************************************************************************)
\* A plausible slip: only a missing title is rejected.
CreateRejectedIfMissing(body) == ~IsDefined(body.title)

\* The controller's "Basic validation": !title || title.trim().length === 0
CreateRejected(body) ==
    \/ ~IsDefined(body.title)
    \/ Val(body.title) = Empty
    \/ Length(Trim(Val(body.title))) = 0

\* new Todo({title, description, completed: false}) with the timestamps
\* option: createdAt and updatedAt are set to the time of the save.
NewTodo(f) ==
    [_id         |-> nextId,
     title       |-> Val(f.title),
     description |-> f.description,
     completed   |-> FALSE,
     createdAt   |-> now,
     updatedAt   |-> now]

createTodo(body) ==
    LET f == CastFields([title       |-> OptTrim(body.title),
                         description |-> OptTrim(body.description),
                         completed   |-> Some(FALSE)])
    IN
    IF CreateRejected(body)
    THEN /\ last' = Response("create", 400, Undefined)
         /\ UNCHANGED <<todos, nextId, now, tog, stats, pg, pager>>
    ELSE IF SchemaErrors(f, TRUE) /= {}
    THEN \* ValidationError: the service rethrows, the controller answers 500
         /\ last' = Response("create", 500, Undefined)
         /\ UNCHANGED <<todos, nextId, now, tog, stats, pg, pager>>
    ELSE /\ nextId <= MaxTodos
         /\ todos' = todos \cup {NewTodo(f)}
         /\ nextId' = nextId + 1
         /\ stats' = StatsAfterWrite
         /\ pg' = PgAfterWrite
         /\ pager' = PagerAfterWrite
         /\ last' = Response("create", 201, Some(NewTodo(f)))
         /\ UNCHANGED <<now, tog>>

(***************************************************************************)
(* PUT /api/todos/:id: TodoController.updateTodo, TodoService.updateTodo.  *)
(***************************************************************************)
\* A plausible slip: the title of an update is not looked at.
UpdateRejectedNever(body) == FALSE

\* The controller's "Basic validation":
\* title !== undefined && title.trim().length === 0
UpdateRejected(body) ==
    IsDefined(body.title) /\ Length(Trim(Val(body.title))) = 0

\* A plausible slip: the document is replaced, so that a field the request
\* does not carry falls back to its default.
ReplaceDocument(d, f) ==
    [d EXCEPT !.title       = IF IsDefined(f.title) THEN Val(f.title) ELSE @,
              !.description = f.description,
              !.completed   = IF IsDefined(f.completed) THEN Val(f.completed) ELSE FALSE,
              !.updatedAt   = now]

\* findByIdAndUpdate(id, {...updateData, updatedAt: new Date()}): a key whose
\* value is undefined is dropped from the update, the others are $set.
ApplyUpdate(d, f) ==
    [d EXCEPT !.title       = IF IsDefined(f.title) THEN Val(f.title) ELSE @,
              !.description = IF IsDefined(f.description) THEN f.description ELSE @,
              !.completed   = IF IsDefined(f.completed) THEN Val(f.completed) ELSE @,
              !.updatedAt   = now]

updateTodo(id, body) ==
    LET f == CastFields([title       |-> OptTrim(body.title),
                         description |-> OptTrim(body.description),
                         completed   |-> body.completed])
    IN
    IF UpdateRejected(body)
    THEN /\ last' = Response("update", 400, Undefined)
         /\ UNCHANGED <<todos, nextId, now, tog, stats, pg, pager>>
    ELSE IF ~ObjectIdIsValid(id)
    THEN /\ last' = Response("update", 404, Undefined)
         /\ UNCHANGED <<todos, nextId, now, tog, stats, pg, pager>>
    ELSE IF SchemaErrors(f, FALSE) /= {}
    THEN \* runValidators: the update is validated before it is sent; the
         \* ValidationError is rethrown and the controller answers 500
         /\ last' = Response("update", 500, Undefined)
         /\ UNCHANGED <<todos, nextId, now, tog, stats, pg, pager>>
    ELSE IF ById(id.n) = {}
    THEN /\ last' = Response("update", 404, Undefined)
         /\ UNCHANGED <<todos, nextId, now, tog, stats, pg, pager>>
    ELSE \E d \in ById(id.n) :
         /\ todos' = (todos \ {d}) \cup {ApplyUpdate(d, f)}
         /\ tog' = TogAfterWrite(id.n, IsDefined(f.completed))
         /\ stats' = StatsAfterWrite
         /\ pg' = PgAfterWrite
         /\ pager' = PagerAfterWrite
         /\ last' = Response("update", 200, Some(ApplyUpdate(d, f)))
         /\ UNCHANGED <<nextId, now>>

(***************************************************************************)
(* DELETE /api/todos/:id: TodoController.deleteTodo,                       *)
(* TodoService.deleteTodo.                                                 *)
(***************************************************************************)
deleteTodo(id) ==
    IF ObjectIdIsValid(id) /\ ById(id.n) /= {}
    THEN /\ todos' = todos \ ById(id.n)
         /\ tog' = TogAfterWrite(id.n, TRUE)
         /\ stats' = StatsAfterWrite
         /\ pg' = PgAfterWrite
         /\ pager' = PagerAfterWrite
         /\ last' = Response("delete", 200, Some(TRUE))
         /\ UNCHANGED <<nextId, now>>
    ELSE /\ last' = Response("delete", 404, Some(FALSE))
         /\ UNCHANGED <<todos, nextId, now, tog, stats, pg, pager>>

(***************************************************************************)
(* GET /api/todos/:id: TodoController.getTodoById,                         *)
(* TodoService.getTodoById.                                                *)
(***************************************************************************)
getTodoById(id) ==
    /\ IF ObjectIdIsValid(id) /\ ById(id.n) /= {}
       THEN \E d \in ById(id.n) :
                last' = Response("get", 200, Some(d))
       ELSE last' = Response("get", 404, Undefined)
    /\ UNCHANGED <<todos, nextId, now, tog, stats, pg, pager>>

(***************************************************************************)
(* GET /api/todos?status=: TodoController.getAllTodos,                     *)
(* TodoService.getAllTodos.                                                *)
(***************************************************************************)
getAllTodosResults(status) == Orderings(Matching(StatusFilter(status)))

getAllTodos(status) ==
    /\ \E s \in getAllTodosResults(status) :
           last' = Response("list", 200, Some([data |-> s, count |-> Len(s)]))
    /\ UNCHANGED <<todos, nextId, now, tog, stats, pg, pager>>

(***************************************************************************)
(* PATCH /api/todos/:id/toggle: TodoController.toggleTodo,                 *)
(* TodoService.toggleTodo.  Two round trips: findById, then save.          *)
(***************************************************************************)
toggleTodo_findById(p, id) ==
    /\ tog[p].pc /= "loaded"
    /\ IF ObjectIdIsValid(id) /\ ById(id.n) /= {}
       THEN \E d \in ById(id.n) :
            LET overlapping == {q \in Slots \ {p} :
                                   /\ tog[q].pc = "loaded" /\ tog[q].id = id.n
                                   /\ tog[q].clean /\ ~tog[q].raced}
            IN
            /\ tog' = [q \in Slots |->
                         IF q = p
                         THEN [pc |-> "loaded", id |-> id.n, doc |-> Some(d),
                               read |-> d.completed, ret |-> Undefined,
                               raced |-> overlapping /= {}, clean |-> TRUE]
                         ELSE IF q \in overlapping
                         THEN [tog[q] EXCEPT !.raced = TRUE]
                         ELSE tog[q]]
            /\ UNCHANGED last
       ELSE /\ tog' = [tog EXCEPT ![p] = IdleTog]
            /\ last' = Response("toggle", 404, Undefined)
    /\ UNCHANGED <<todos, nextId, now, stats, pg, pager>>

\* todo.completed = !todo.completed on the copy that was read
Flip(d) == [d EXCEPT !.completed = ~d.completed, !.updatedAt = now]

\* A plausible change: the flip is done by the store on the value it holds.
SaveFlipStored(stored, d) ==
    [stored EXCEPT !.completed = ~stored.completed, !.updatedAt = now]

\* A plausible slip: save() writes the updatedAt the copy was read with.
SaveFlipStaleTime(stored, d) ==
    [stored EXCEPT !.completed = Flip(d).completed, !.updatedAt = d.updatedAt]

\* A plausible change: save() writes the whole copy over the document.
SaveWholeCopy(stored, d) == Flip(d)

\* todo.save(): an update of the document with this _id that sets the
\* modified paths, completed and updatedAt, to the values of the copy.
SaveFlip(stored, d) ==
    [stored EXCEPT !.completed = Flip(d).completed, !.updatedAt = Flip(d).updatedAt]

\* A plausible slip: save() of a copy whose document is gone inserts it.
SaveOfMissingInserts(d) == {Flip(d)}

\* What save() stores when no document has the _id of the copy: nothing,
\* the update matches no document.
SaveOfMissing(d) == {}

toggleTodo_save(p) ==
    /\ tog[p].pc = "loaded"
    /\ LET d == Val(tog[p].doc) IN
       IF ById(d._id) = {}
       THEN \* save() matches no document: DocumentNotFoundError, rethrown
            /\ todos' = todos \cup SaveOfMissing(d)
            /\ tog' = [tog EXCEPT ![p].pc = "done", ![p].doc = Undefined]
            /\ last' = Response("toggle", 500, Undefined)
            /\ UNCHANGED <<stats, pg, pager>>
       ELSE \E stored \in ById(d._id) :
            /\ todos' = (todos \ {stored}) \cup {SaveFlip(stored, d)}
            /\ tog' = [q \in Slots |->
                         IF q = p
                         THEN [tog[p] EXCEPT !.pc = "done", !.doc = Undefined,
                                             !.ret = Some(Flip(d).completed)]
                         ELSE IF /\ tog[q].pc /= "idle" /\ tog[q].id = d._id
                                 /\ ~(tog[p].raced /\ tog[q].raced)
                         THEN [tog[q] EXCEPT !.clean = FALSE]
                         ELSE tog[q]]
            /\ stats' = StatsAfterWrite
            /\ pg' = PgAfterWrite
         /\ pager' = PagerAfterWrite
            /\ last' = Response("toggle", 200, Some(Flip(d)))
    /\ UNCHANGED <<nextId, now>>

(***************************************************************************)
(* GET /api/todos/stats: TodoController.getTodoStats,                      *)
(* TodoService.getTodosCount.  Promise.all issues countDocuments() and     *)
(* countDocuments({completed: true}); the store answers them in either     *)
(* order; the answer that arrives second completes the call.               *)
(***************************************************************************)
\* A plausible slip: pending is counted as the total.
StatsResultPendingTotal(total, completed) ==
    [total |-> total, completed |-> completed, pending |-> total]

\* A plausible slip: the two counts are taken in the wrong order.
StatsResultSwapped(total, completed) ==
    [total |-> completed, completed |-> total, pending |-> completed - total]

StatsResult(total, completed) ==
    [total |-> total, completed |-> completed, pending |-> total - completed]

getTodoStats ==
    /\ stats.pc /= "running"
    /\ stats' = [IdleStats EXCEPT !.pc = "running"]
    /\ UNCHANGED <<todos, nextId, now, tog, pg, pager, last>>

StatsAnswer(total, completed) ==
    IF IsDefined(total) /\ IsDefined(completed)
    THEN /\ stats' = [stats EXCEPT !.pc = "done", !.total = total,
                                   !.completed = completed,
                                   !.result = Some(StatsResult(Val(total), Val(completed)))]
         /\ last' = Response("stats", 200, Some(StatsResult(Val(total), Val(completed))))
    ELSE /\ stats' = [stats EXCEPT !.total = total, !.completed = completed]
         /\ UNCHANGED last

getTodosCount_total ==
    /\ stats.pc = "running"
    /\ ~IsDefined(stats.total)
    /\ StatsAnswer(Some(CountDocuments(Undefined)), stats.completed)
    /\ UNCHANGED <<todos, nextId, now, tog, pg, pager>>

getTodosCount_completed ==
    /\ stats.pc = "running"
    /\ ~IsDefined(stats.completed)
    /\ StatsAnswer(stats.total, Some(CountDocuments(Some(TRUE))))
    /\ UNCHANGED <<todos, nextId, now, tog, pg, pager>>

(***************************************************************************)
(* GET /api/todos/paginated: TodoController.getPaginatedTodos,             *)
(* TodoService.getTodosPaginated.  A query parameter is Undefined when     *)
(* parseInt gives NaN, else the integer it gives.                          *)
(***************************************************************************)
\* parseInt(q) || dflt: NaN and 0 are both falsy
OrDefault(q, dflt) == IF IsDefined(q) /\ Val(q) /= 0 THEN Val(q) ELSE dflt

\* page < 1 || limit < 1 || limit > 100
BadPagination(page, limit) == page < 1 \/ limit < 1 \/ limit > MaxLimit

\* Math.ceil(total / limit), limit >= 1
TotalPages(total, limit) == (total + limit - 1) \div limit

\* .skip(skip).limit(limit) of a sorted result
SkipLimit(s, skip, limit) ==
    SubSeq(s, skip + 1, IF skip + limit < Len(s) THEN skip + limit ELSE Len(s))

getPaginatedTodos(pageQ, limitQ, status) ==
    LET page  == OrDefault(pageQ, DefaultPage)
        limit == OrDefault(limitQ, DefaultLimit)
    IN
    /\ pg.pc = "idle"
    /\ IF BadPagination(page, limit)
       THEN /\ last' = Response("page", 400, Undefined)
            /\ UNCHANGED pg
       ELSE /\ pg' = [IdlePg EXCEPT !.pc = "running", !.page = page,
                                    !.limit = limit, !.status = status]
            /\ UNCHANGED last
    /\ UNCHANGED <<todos, nextId, now, tog, stats, pager>>

PageResponse(items, total) ==
    LET totalPages == TotalPages(total, pg.limit) IN
    [data |-> items,
     pagination |-> [page       |-> pg.page,
                     limit      |-> pg.limit,
                     total      |-> total,
                     totalPages |-> totalPages,
                     hasNext    |-> pg.page < totalPages,
                     hasPrev    |-> pg.page > 1]]

\* What a client that asks for page 1, 2, ... of one listing has collected.
PagerAfter(items, total) ==
    IF pg.page = 1 /\ pg.quiet
    THEN [pc |-> "paging", status |-> pg.status, limit |-> pg.limit, next |-> 2,
          totalPages |-> TotalPages(total, pg.limit), items |-> items]
    ELSE IF /\ pager.pc = "paging" /\ pg.quiet
            /\ pg.page = pager.next /\ pg.page <= pager.totalPages
            /\ pg.status = pager.status /\ pg.limit = pager.limit
    THEN [pager EXCEPT !.next = @ + 1, !.items = @ \o items]
    ELSE IdlePager

PageAnswer(items, total) ==
    IF IsDefined(items) /\ IsDefined(total)
    THEN /\ pg' = IdlePg
         /\ pager' = PagerAfter(Val(items), Val(total))
         /\ last' = Response("page", 200, Some(PageResponse(Val(items), Val(total))))
    ELSE /\ pg' = [pg EXCEPT !.todos = items, !.total = total]
         /\ UNCHANGED <<pager, last>>

getTodosPaginated_find ==
    /\ pg.pc = "running"
    /\ ~IsDefined(pg.todos)
    /\ \E s \in Orderings(Matching(StatusFilter(pg.status))) :
           PageAnswer(Some(SkipLimit(s, (pg.page - 1) * pg.limit, pg.limit)), pg.total)
    /\ UNCHANGED <<todos, nextId, now, tog, stats>>

getTodosPaginated_count ==
    /\ pg.pc = "running"
    /\ ~IsDefined(pg.total)
    /\ PageAnswer(pg.todos, Some(CountDocuments(StatusFilter(pg.status))))
    /\ UNCHANGED <<todos, nextId, now, tog, stats>>

(***************************************************************************)
(* Requests.                                                               *)
(***************************************************************************)
Ids == {Oid(k) : k \in 1..MaxTodos} \cup {Junk}

Statuses == {Undefined, Some("all"), Some("completed"), Some("pending"), Some("done")}

A(k) == Run("a", k)
D(k) == Run("d", k)
Sp   == Run(" ", 1)

Only(field, v) == [NoFields EXCEPT ![field] = v]

PlainCreate == Only("title", Some(A(1)))

CompletedOnly == {Only("completed", Some(b)) : b \in BOOLEAN}

\* Bodies over whitespace, the empty title and the length limits.
TitleInputs ==
    {Undefined, Some(Empty), Some(Sp), Some(Sp \o A(1) \o Sp),
     Some(A(TitleMaxLength) \o Sp), Some(A(TitleMaxLength + 1))}

DescriptionInputs ==
    {Undefined, Some(Sp \o D(1) \o Sp), Some(D(DescriptionMaxLength + 1))}

CreateInputs ==
    [title : TitleInputs, description : DescriptionInputs, completed : {Undefined}]

UpdateInputs ==
    [title : TitleInputs \ {Some(Empty)}, description : DescriptionInputs,
     completed : {Undefined, Some(TRUE), Some(FALSE)}]

\* Fewer bodies, for the specification that also runs toggleTodo.
FewCreateInputs ==
    [title : {Undefined, Some(Empty), Some(Sp), Some(Sp \o A(1) \o Sp)},
     description : {Undefined, Some(Sp \o D(1) \o Sp)},
     completed : {Undefined}]

FewUpdateInputs ==
    {NoFields,
     Only("title", Some(Sp)),
     Only("title", Some(Sp \o A(1) \o Sp)),
     Only("title", Some(A(TitleMaxLength + 1))),
     Only("description", Some(Sp \o D(1) \o Sp)),
     Only("description", Some(D(DescriptionMaxLength + 1)))}
    \cup CompletedOnly

PageInputs  == {Undefined, Some(-1), Some(0)} \cup {Some(k) : k \in 1..(MaxTodos + 1)}
LimitInputs == {Undefined, Some(-1), Some(0), Some(1), Some(2), Some(MaxLimit + 1)}
PageStatuses == {Undefined, Some("completed"), Some("pending")}

(***************************************************************************)
(* Spec: two overlapping toggleTodo calls among creates, updates of the    *)
(* completed flag and deletes, all within one tick of the clock.           *)
(***************************************************************************)
Next ==
    \/ createTodo(PlainCreate)
    \/ \E id \in Ids, body \in CompletedOnly : updateTodo(id, body)
    \/ \E id \in Ids : deleteTodo(id)
    \/ \E p \in Slots, id \in Ids : toggleTodo_findById(p, id)
    \/ \E p \in Slots : toggleTodo_save(p)

Spec == Init /\ [][Next]_vars

(***************************************************************************)
(* SpecStats: listing and statistics among creates, updates of the         *)
(* completed flag and deletes.                                             *)
(***************************************************************************)
NextStats ==
    \/ Tick
    \/ createTodo(PlainCreate)
    \/ \E id \in Ids, body \in CompletedOnly : updateTodo(id, body)
    \/ \E id \in Ids : deleteTodo(id)
    \/ getTodoStats
    \/ getTodosCount_total
    \/ getTodosCount_completed
    \/ \E status \in Statuses : getAllTodos(status)

SpecStats == Init /\ [][NextStats]_vars

(***************************************************************************)
(* SpecInput: create and update, one request at a time, over titles and    *)
(* descriptions with whitespace and over the length limits.                *)
(***************************************************************************)
NextInput ==
    \/ Tick
    \/ \E body \in CreateInputs : createTodo(body)
    \/ \E id \in Ids, body \in UpdateInputs : updateTodo(id, body)
    \/ \E id \in Ids : deleteTodo(id)

SpecInput == Init /\ [][NextInput]_vars

(***************************************************************************)
(* SpecIds: the handlers that take an id, with malformed ids, ids of no    *)
(* document and ids of a document, one request at a time within one tick   *)
(* of the clock.                                                           *)
(***************************************************************************)
NextIds ==
    \/ \E body \in FewCreateInputs : createTodo(body)
    \/ \E id \in Ids, body \in FewUpdateInputs : updateTodo(id, body)
    \/ \E id \in Ids : deleteTodo(id)
    \/ \E id \in Ids : getTodoById(id)
    \/ \E id \in Ids : toggleTodo_findById("A", id)
    \/ toggleTodo_save("A")

SpecIds == Init /\ [][NextIds]_vars

(***************************************************************************)
(* SpecToggle: toggleTodo calls, overlapping or one after the other,       *)
(* among creates, updates of the completed flag, updates of the title of   *)
(* the first todo, and deletes.                                            *)
(***************************************************************************)
Retitle == Only("title", Some(Sp \o A(2) \o Sp))

NextToggle ==
    \/ createTodo(PlainCreate)
    \/ \E id \in Ids, body \in CompletedOnly : updateTodo(id, body)
    \/ updateTodo(Oid(1), Retitle)
    \/ \E id \in Ids : deleteTodo(id)
    \/ \E p \in Slots, id \in Ids : toggleTodo_findById(p, id)
    \/ \E p \in Slots : toggleTodo_save(p)

SpecToggle == Init /\ [][NextToggle]_vars

(***************************************************************************)
(* SpecTime: the timestamps, with the clock running, under creates,        *)
(* updates of the completed flag, deletes and one toggleTodo call at a     *)
(* time.                                                                   *)
(***************************************************************************)
NextTime ==
    \/ Tick
    \/ createTodo(PlainCreate)
    \/ \E id \in Ids, body \in CompletedOnly : updateTodo(id, body)
    \/ \E id \in Ids : deleteTodo(id)
    \/ \E id \in Ids : toggleTodo_findById("A", id)
    \/ toggleTodo_save("A")

SpecTime == Init /\ [][NextTime]_vars

(***************************************************************************)
(* SpecPage: paginated listing over a collection that changes between      *)
(* and during the requests.                                                *)
(***************************************************************************)
NextPage ==
    \/ Tick
    \/ createTodo(PlainCreate)
    \/ \E id \in Ids, body \in CompletedOnly : updateTodo(id, body)
    \/ \E pageQ \in PageInputs, limitQ \in LimitInputs, status \in PageStatuses :
           getPaginatedTodos(pageQ, limitQ, status)
    \/ getTodosPaginated_find
    \/ getTodosPaginated_count

SpecPage == Init /\ [][NextPage]_vars

(***************************************************************************)
(* The claims.                                                             *)
(***************************************************************************)
\* Two finished toggleTodo calls on one id, each of which read the document
\* before the other saved it, with no update of completed and no delete of
\* that document by any other request since the first of the two reads.
RacePair(p, q) ==
    /\ p /= q
    /\ tog[p].pc = "done" /\ tog[q].pc = "done"
    /\ tog[p].id = tog[q].id
    /\ tog[p].raced /\ tog[q].raced
    /\ tog[p].clean /\ tog[q].clean

\* C1: when two toggleTodo calls on the same existing id both read before
\* either saves, both read the same completed value, both return the
\* flipped value, and the stored flag is flipped once: one flip is lost.
C1_LostUpdate ==
    \A p, q \in Slots :
        RacePair(p, q) =>
            /\ tog[p].read = tog[q].read
            /\ tog[p].ret = Some(~tog[p].read)
            /\ tog[q].ret = Some(~tog[p].read)
            /\ ById(tog[p].id) /= {}
            /\ \A d \in ById(tog[p].id) : d.completed = ~tog[p].read

C1_Witness == \E p, q \in Slots : RacePair(p, q)

\* C2: a successful update changes exactly the fields the request carries,
\* to their trimmed values, and updatedAt; the fields it does not carry,
\* _id, createdAt and every other document stay as they were.
C2_PartialUpdate ==
    [][(last'.op = "update" /\ last'.status = 200) =>
       \A id \in {Oid(Val(last'.data)._id)}, body \in UpdateInputs :
        updateTodo(id, body) =>
            \E d \in ById(id.n) : \E e \in todos' :
                /\ todos' \ {e} = todos \ {d}
                /\ e._id = d._id
                /\ e.createdAt = d.createdAt
                /\ e.updatedAt = now
                /\ e.title = (IF IsDefined(body.title)
                              THEN Trim(Val(body.title)) ELSE d.title)
                /\ e.description = (IF IsDefined(body.description)
                                    THEN Some(Trim(Val(body.description)))
                                    ELSE d.description)
                /\ e.completed = (IF IsDefined(body.completed)
                                  THEN Val(body.completed) ELSE d.completed)
                /\ last'.data = Some(e)]_vars

C2_Witness ==
    /\ last.op = "update" /\ last.status = 200
    /\ Cardinality(todos) = 2
    /\ Val(last.data).updatedAt > Val(last.data).createdAt
    /\ Val(last.data).completed
    /\ IsDefined(Val(last.data).description)

BlankTitle(body) == IsDefined(body.title) /\ Length(Trim(Val(body.title))) = 0

BlankCreateInputs ==
    {b \in FewCreateInputs : ~IsDefined(b.title) \/ BlankTitle(b)}

BlankUpdateInputs == {b \in FewUpdateInputs : BlankTitle(b)}

\* C3: a create whose title is missing or blank, and an update whose title
\* is present and blank, are answered 400 and leave the collection as it was.
C3_BlankTitleRejected ==
    [][/\ last'.op = "create" =>
            \A body \in BlankCreateInputs :
                createTodo(body) => (last'.status = 400 /\ todos' = todos)
       /\ last'.op = "update" =>
            \A id \in Ids, body \in BlankUpdateInputs :
                updateTodo(id, body) => (last'.status = 400 /\ todos' = todos)]_vars

C3_Witness ==
    /\ last.op = "update" /\ last.status = 400
    /\ Cardinality(todos) = 2

TooLong(body) ==
    \/ IsDefined(body.title) /\ Length(Trim(Val(body.title))) > TitleMaxLength
    \/ IsDefined(body.description)
        /\ Length(Trim(Val(body.description))) > DescriptionMaxLength

\* C4: a create or update whose title exceeds 200 characters or whose
\* description exceeds 1000 is answered with the client error 400, like an
\* empty title, and creates or changes no document.
C4_TooLongIsClientError ==
    [][/\ \A body \in {b \in CreateInputs : TooLong(b)} :
            createTodo(body) => (last'.status = 400 /\ todos' = todos)
       /\ \A id \in Ids, body \in {b \in UpdateInputs : TooLong(b)} :
            updateTodo(id, body) => (last'.status = 400 /\ todos' = todos)]_vars

NoSuchId(id) == ~ObjectIdIsValid(id) \/ ById(id.n) = {}

\* C5: for get, update, toggle and delete a malformed id and a well-formed
\* id of no document are answered alike, 404 (delete: false), never with a
\* server error, and leave the collection as it was; delete answers true
\* only when it removed a document.  (An update with a blank title is the
\* validation failure of C3 and is left out here.)
C5_NoSuchIdIsNotFound ==
    [][/\ \A id \in Ids :
            NoSuchId(id) =>
                /\ getTodoById(id) => (last'.status = 404 /\ todos' = todos)
                /\ toggleTodo_findById("A", id)
                       => (last'.status = 404 /\ todos' = todos)
                /\ deleteTodo(id)
                       => (last'.status = 404 /\ last'.data = Some(FALSE)
                           /\ todos' = todos)
                /\ \A body \in {b \in FewUpdateInputs : ~BlankTitle(b)} :
                       updateTodo(id, body)
                           => (last'.status = 404 /\ todos' = todos)
       /\ \A id \in Ids :
            (deleteTodo(id) /\ last'.data = Some(TRUE))
                => (ById(id.n) /= {} /\ todos' = todos \ ById(id.n))]_vars

\* C6: every stored title is non-empty and neither title nor description
\* begins or ends with whitespace.
C6_StoredTrimmed ==
    \A d \in todos :
        /\ d.title /= Empty
        /\ ~StartsOrEndsWithSpace(d.title)
        /\ IsDefined(d.description) => ~StartsOrEndsWithSpace(Val(d.description))

\* Create {title: " a ", description: " d "} answered with {"a", "d", false}.
C6_Witness ==
    /\ last.op = "create" /\ last.status = 201
    /\ Val(last.data).title = A(1)
    /\ Val(last.data).description = Some(D(1))
    /\ ~Val(last.data).completed
    /\ Val(last.data) \in todos

Range(s) == {s[i] : i \in 1..Len(s)}

\* C7: for a collection that does not change, the pages 1..totalPages of
\* the paginated listing, one after the other, are the listing of the same
\* status: nothing twice, nothing left out, also among documents created
\* in the same millisecond.
C7_PagesMakeTheList ==
    (pager.pc = "paging" /\ pager.next > pager.totalPages)
        => pager.items \in getAllTodosResults(pager.status)

Min(a, b) == IF a < b THEN a ELSE b
Max(a, b) == IF a > b THEN a ELSE b

\* C8: over a collection that does not change a paginated call answers
\* total = the number of matching documents, totalPages = ceil(total/limit),
\* min(limit, max(0, total - (page-1)*limit)) items, hasNext = page <
\* totalPages and hasPrev = page > 1; a request with page < 1, limit < 1 or
\* limit > 100 is answered 400 and no query is issued.
C8_PageShape ==
    [][/\ \A pageQ \in PageInputs, limitQ \in LimitInputs, status \in PageStatuses :
            (/\ getPaginatedTodos(pageQ, limitQ, status)
             /\ \/ IsDefined(pageQ) /\ Val(pageQ) < 1
                \/ IsDefined(limitQ) /\ Val(limitQ) < 1
                \/ IsDefined(limitQ) /\ Val(limitQ) > MaxLimit)
                => (last'.status = 400 /\ pg'.pc = "idle")
       /\ (pg.pc = "running" /\ pg'.pc = "idle" /\ pg.quiet)
            => LET r     == Val(last'.data)
                   total == Cardinality(Matching(StatusFilter(pg.status)))
                   pages == r.pagination.totalPages
               IN
               /\ r.pagination.total = total
               /\ pages * pg.limit >= total
               /\ (pages - 1) * pg.limit < total \/ (total = 0 /\ pages = 0)
               /\ Len(r.data) = Min(pg.limit, Max(0, total - (pg.page - 1) * pg.limit))
               /\ r.pagination.hasNext = (pg.page < pages)
               /\ r.pagination.hasPrev = (pg.page > 1)]_vars

\* C9: the completed listing and the pending listing share no document and
\* together hold the documents of the full listing; a status that is absent
\* or neither "completed" nor "pending" lists like "all".
C9_FilterPartition ==
    /\ \A c \in getAllTodosResults(Some("completed")),
          p \in getAllTodosResults(Some("pending")),
          a \in getAllTodosResults(Some("all")) :
            /\ Range(c) \cap Range(p) = {}
            /\ Range(c) \cup Range(p) = Range(a)
    /\ \A status \in Statuses \ {Some("completed"), Some("pending")} :
            getAllTodosResults(status) = getAllTodosResults(Some("all"))

C9_Witness ==
    /\ last.op = "list" /\ Val(last.data).count = 1
    /\ \E d \in todos : d.completed
    /\ \E d \in todos : ~d.completed

\* C10: every statistics answer has pending = total - completed; when no
\* write overlapped the call, total, completed and pending are the lengths
\* of the listings "all", "completed" and "pending".
C10_StatsConsistent ==
    stats.pc = "done" =>
        LET r == Val(stats.result) IN
        /\ r.pending = r.total - r.completed
        /\ stats.quiet =>
            /\ \A a \in getAllTodosResults(Some("all")) : r.total = Len(a)
            /\ \A c \in getAllTodosResults(Some("completed")) : r.completed = Len(c)
            /\ \A p \in getAllTodosResults(Some("pending")) : r.pending = Len(p)

C10_Witness ==
    /\ stats.pc = "done" /\ stats.quiet
    /\ Val(stats.result).completed = 1
    /\ Val(stats.result).pending = 1

\* Slot p holds a finished toggleTodo call that flipped the flag of its
\* todo, and slot q a call on the same todo that read after p saved; no
\* other write to the flag since p read.
Successive(p, q) ==
    /\ p /= q
    /\ tog[p].pc = "done" /\ IsDefined(tog[p].ret)
    /\ tog[p].clean /\ ~tog[p].raced
    /\ tog[q].pc = "loaded" /\ tog[q].id = tog[p].id
    /\ tog[q].clean /\ ~tog[q].raced

\* C11: the second of two successive toggleTodo calls on a todo, with no
\* other write to its flag in between, stores and returns the completed
\* value the first one read; and a toggleTodo call that succeeds changes
\* only completed and updatedAt of its todo: title, description, createdAt
\* and every other document stay as they were.
C11_ToggleTwice ==
    [][(last'.op = "toggle" /\ last'.status = 200) =>
       \A q \in Slots :
        toggleTodo_save(q) =>
            /\ \E d \in ById(tog[q].id) : \E e \in todos' :
                    /\ todos' \ {e} = todos \ {d}
                    /\ e = [d EXCEPT !.completed = ~tog[q].read,
                                     !.updatedAt = now]
            /\ \A p \in Slots :
                    Successive(p, q) =>
                        /\ Val(last'.data).completed = tog[p].read
                        /\ \A e \in todos' :
                              e._id = tog[q].id => e.completed = tog[p].read]_vars

\* Two toggleTodo calls one after the other on the retitled first todo.
C11_Witness ==
    /\ last.op = "toggle" /\ last.status = 200
    /\ \E p, q \in Slots :
          /\ tog[p].pc = "done" /\ tog[q].pc = "done"
          /\ tog[p].id = tog[q].id
          /\ ~tog[p].raced /\ ~tog[q].raced /\ tog[q].clean
          /\ tog[p].ret = Some(tog[q].read)
          /\ tog[q].ret = Some(tog[p].read)
          /\ \E d \in ById(tog[q].id) :
                d.completed = tog[p].read /\ d.title = A(2)

C13_StatsInRange ==
    stats.pc = "done" =>
        /\ 0 <= Val(stats.result).completed
        /\ Val(stats.result).completed <= Val(stats.result).total
        /\ Val(stats.result).pending >= 0

\* C13, amended: every statistics answer has completed >= 0 and total >= 0;
\* when no write overlapped the call it has completed <= total and
\* pending >= 0.
C13_StatsInRangeWhenQuiet ==
    stats.pc = "done" =>
        /\ 0 <= Val(stats.result).completed
        /\ 0 <= Val(stats.result).total
        /\ stats.quiet =>
            /\ Val(stats.result).completed <= Val(stats.result).total
            /\ Val(stats.result).pending >= 0

\* An undisturbed answer over one pending todo and nothing completed.
C13_Witness ==
    /\ stats.pc = "done" /\ stats.quiet
    /\ Val(stats.result).total = 1
    /\ Val(stats.result).completed = 0
    /\ Cardinality(todos) = 1

\* C14: when the todo was deleted between the read and the save of a
\* toggleTodo call, the save stores nothing, so the todo stays deleted and
\* the collection is as the delete left it, and the call answers with the
\* one failure 500 and no todo.
C14_ToggleAfterDelete ==
    [][\A p \in Slots :
        (tog[p].pc = "loaded" /\ ById(tog[p].id) = {} /\ toggleTodo_save(p))
            => /\ todos' = todos
               /\ last' = Response("toggle", 500, Undefined)
               /\ tog'[p].pc = "done"
               /\ ~IsDefined(tog'[p].ret)]_vars

\* A toggleTodo call that failed on a deleted todo, next to a stored one.
C14_Witness ==
    /\ last = Response("toggle", 500, Undefined)
    /\ todos /= {}
    /\ \E p \in Slots :
          /\ tog[p].pc = "done" /\ ~IsDefined(tog[p].ret)
          /\ ById(tog[p].id) = {}
          /\ tog[p].id < nextId

====
